---------------------------- MODULE Spec2Model ----------------------------
(***************************************************************************)
(* Model of comps/retrievers/neo4j/llama_index/                            *)
(* retriever_community_answers_neo4j.py: the GraphRAGQueryEngine           *)
(* (custom_query and the methods it calls) and the retrieve endpoint with  *)
(* its lazily initialised process-wide graph store, index and engine.      *)
(*                                                                         *)
(* Texts are sequences of tokens.  A token is a run of word characters     *)
(* (what \w+ consumes; adjacent word tokens form one longer word), one     *)
(* whitespace character, the arrow "->", or one other character.           *)
(***************************************************************************)
EXTENDS Integers, Sequences, FiniteSets, TLC

\* ------------------------------------------------------------------ bounds
MaxTextLen == 5       \* longest exhaustively enumerated node text (tokens)
MaxEntities == 3      \* longest entity list given to the summary fetcher
MaxBatch == 3         \* largest batch_size tried
NumRequests == 2      \* requests handled by one process
MaxEdges == 3         \* most BELONGS_TO edges in an enumerated graph

\* ------------------------------------------------------------------ tokens
WordTok == {"Paris", "capitalOf", "France"}
Space == " "
Arrow == "->"
Other == "."
Token == WordTok \cup {Space, Arrow, Other}

IsWord(t) == t \in WordTok
IsSpace(t) == t = Space

\* The text of the spec's example, "Paris -> capitalOf -> France".
ParisText == <<"Paris", " ", "->", " ", "capitalOf", " ", "->", " ", "France">>

\* ------------------------------------------------------------ seq helpers
RECURSIVE Concat(_)
Concat(ss) == IF ss = <<>> THEN <<>> ELSE Head(ss) \o Concat(Tail(ss))

Range(s) == {s[k] : k \in 1..Len(s)}

NoDup(s) == \A j, k \in 1..Len(s) : j # k => s[j] # s[k]

\* text[a..b], both inclusive, 1-based
Slice(s, a, b) == SubSeq(s, a, b)

\* hi, hi-1, ..., lo (empty when hi < lo): the order in which a greedy
\* quantifier gives back what it consumed
Desc(hi, lo) == [k \in 1..(hi - lo + 1) |-> hi - k + 1]

RECURSIVE Perms(_)
Perms(S) ==
    IF S = {} THEN {<<>>}
    ELSE UNION {{<<x>> \o p : p \in Perms(S \ {x})} : x \in S}

\* ------------------------------------------------- the pattern of line 107
\* (\w+(?:\s+\w+)*)\s*->\s*(\w+(?:\s+\w+)*)\s*->\s*(\w+(?:\s+\w+)*)
\* A position is the index of the next token to consume.  Each Ends*
\* operator lists the positions at which the sub-pattern can end when it
\* starts at p, in the order the backtracking matcher tries them.

RECURSIVE WordRun(_, _)
WordRun(text, p) ==
    IF p <= Len(text) /\ IsWord(text[p]) THEN 1 + WordRun(text, p + 1) ELSE 0

RECURSIVE SpaceRun(_, _)
SpaceRun(text, p) ==
    IF p <= Len(text) /\ IsSpace(text[p]) THEN 1 + SpaceRun(text, p + 1) ELSE 0

\* \w+ (greedy)
EndsWordPlus(text, p) == Desc(p + WordRun(text, p), p + 1)

\* \s+ (greedy)
EndsSpacePlus(text, p) == Desc(p + SpaceRun(text, p), p + 1)

\* \s* (greedy)
EndsSpaceStar(text, p) == Desc(p + SpaceRun(text, p), p)

\* (?:\s+\w+)* (greedy): one more iteration first, zero iterations last
RECURSIVE EndsGroupStar(_, _)
EndsGroupStar(text, p) ==
    LET sp == EndsSpacePlus(text, p)
        iter == Concat([k \in 1..Len(sp) |->
                   LET wp == EndsWordPlus(text, sp[k])
                   IN  Concat([j \in 1..Len(wp) |-> EndsGroupStar(text, wp[j])])])
    IN  iter \o <<p>>

\* \w+(?:\s+\w+)*  : one subject, relation or object segment
EndsSegment(text, p) ==
    LET wp == EndsWordPlus(text, p)
    IN  Concat([k \in 1..Len(wp) |-> EndsGroupStar(text, wp[k])])

\* \s*->\s*
EndsSeparator(text, p) ==
    LET s1 == EndsSpaceStar(text, p)
    IN  Concat([k \in 1..Len(s1) |->
            IF s1[k] <= Len(text) /\ text[s1[k]] = Arrow
            THEN EndsSpaceStar(text, s1[k] + 1)
            ELSE <<>>])

\* Partial parses are tuples of positions; the last one is where the parse
\* stands.  Extending keeps the matcher's order.
ExtendSegment(text, partials) ==
    Concat([k \in 1..Len(partials) |->
        LET part == partials[k]
            ends == EndsSegment(text, part[Len(part)])
        IN  [j \in 1..Len(ends) |-> Append(part, ends[j])]])

ExtendSeparator(text, partials) ==
    Concat([k \in 1..Len(partials) |->
        LET part == partials[k]
            ends == EndsSeparator(text, part[Len(part)])
        IN  [j \in 1..Len(ends) |-> Append(part, ends[j])]])

\* All parses <<p, e1, s2, e2, s3, e3>> of the whole pattern starting at p,
\* in the matcher's order: subject = [p, e1), relation = [s2, e2),
\* object = [s3, e3).
ParsesAt(text, p) ==
    ExtendSegment(text,
      ExtendSeparator(text,
        ExtendSegment(text,
          ExtendSeparator(text,
            ExtendSegment(text, << <<p>> >>)))))

\* The groups of a parse, as re.findall reports them (a 3-tuple).
Groups(text, parse) ==
    << Slice(text, parse[1], parse[2] - 1),
       Slice(text, parse[3], parse[4] - 1),
       Slice(text, parse[5], parse[6] - 1) >>

\* re.findall(pattern, text, re.DOTALL): scan from the left; at a position
\* with a match take the matcher's first parse and continue at its end,
\* else move on by one.
RECURSIVE FindAllFrom(_, _)
FindAllFrom(text, pos) ==
    IF pos > Len(text) THEN <<>>
    ELSE LET ps == ParsesAt(text, pos)
         IN  IF ps = <<>> THEN FindAllFrom(text, pos + 1)
             ELSE <<Groups(text, ps[1])>> \o FindAllFrom(text, ps[1][6])

findall(text) == FindAllFrom(text, 1)

\* lines 114-118 with a slip: the relation taken for the object
MatchEntitiesRelationAsObject(match) == {match[1], match[2]}

\* lines 114-118: subject = match[0]; obj = match[2]; both added to the set
MatchEntities(match) == {match[1], match[3]}

\* lines 106-118: the set `entities` after the loop over nodes_retrieved
EntitySet(nodes) ==
    UNION {UNION {MatchEntities(m) : m \in Range(findall(nodes[n]))} :
           n \in 1..Len(nodes)}


\* ------------------------------------------------------- external graph
\* Entity nodes that exist in the graph database, the Cluster nodes and
\* each cluster's summary property (fixed; built by the data-preparation
\* pipeline).
EntityName == {<<"Paris">>, <<"France">>, <<"capitalOf">>}
Cluster == {"c1", "c2", "c3", "c4"}
Summary(c) ==
    CASE c = "c1" -> "summary1"
      [] c = "c2" -> "summary2"
      [] c = "c3" -> "summary3"
      [] OTHER -> "summary4"

\* The LLM's answer text for a prompt built on a summary.
AnswerText(summary) ==
    CASE summary = "summary1" -> "answer1"
      [] summary = "summary2" -> "answer2"
      [] summary = "summary3" -> "answer3"
      [] OTHER -> "answer4"

\* --------------------------------------------------------------- state
VARIABLES
    \* configuration
    OPENAI_API_KEY,        \* whether config.OPENAI_API_KEY is set (truthy)
    \* one custom_query call
    nodes_retrieved,       \* what index.as_retriever(...).retrieve returns
    belongs_to,            \* the BELONGS_TO edges: a set of <<entity, cluster>>
    batch_size,            \* custom_query's batch_size
    phase,                 \* where custom_query stands
    entities,              \* get_entities' result (a list)
    ent_k,                 \* entities already queried in the cypher loop
    community_summaries,   \* the dict, as a sequence of <<key, value>> in insertion order
    i,                     \* the loop variable of line 82
    batch_prompts,         \* community ids of the prompts of the batch in progress
    batch_responses,       \* raw responses collected for the batch in progress
    community_answers,     \* line 81
    response_data,         \* custom_query's return value
    err,                   \* the exception that left custom_query, if any
    batches,               \* history: the batch_ids of every generate_batch_answers_from_summaries call
    llm_calls,             \* history: every chat call issued, [community, client]
    \* the service process
    initialized, graph_store, index, query_engine,   \* the globals of lines 223-226
    pc,                    \* each request's position in retrieve
    llm, embed_model,      \* each request's locals in initialize_graph_store_and_index
    outcome,               \* each request's result or the exception it raised
    latency,               \* statistics_dict[...]: the samples appended
    built                  \* history: the engines constructed, in order

queryVars == <<nodes_retrieved, belongs_to, batch_size, phase, entities, ent_k,
               community_summaries, i, batch_prompts, batch_responses,
               community_answers, response_data, err, batches, llm_calls>>
serviceVars == <<initialized, graph_store, index, query_engine, pc, llm,
                 embed_model, outcome, latency, built>>
vars == <<OPENAI_API_KEY, queryVars, serviceVars>>

\* ------------------------------------------------------------- dict
Keys(d) == [k \in 1..Len(d) |-> d[k][1]]
HasKey(d, key) == \E k \in 1..Len(d) : d[k][1] = key
Lookup(d, key) == d[CHOOSE k \in 1..Len(d) : d[k][1] = key][2]

\* d[key] = value with a list's append instead of a dict's assignment
DictSetAppend(d, key, value) == Append(d, <<key, value>>)

\* d[key] = value: a new key goes last, an existing key keeps its place
DictSet(d, key, value) ==
    IF HasKey(d, key)
    THEN [k \in 1..Len(d) |-> IF d[k][1] = key THEN <<key, value>> ELSE d[k]]
    ELSE Append(d, <<key, value>>)

\* lines 162-163: the records of one result, stored in the order returned
RECURSIVE StoreRecords(_, _)
StoreRecords(d, records) ==
    IF records = <<>> THEN d
    ELSE StoreRecords(DictSet(d, Head(records)[1], Head(records)[2]), Tail(records))

\* lines 155-161: the (cluster_id, summary) rows the MATCH returns for one
\* entity id, as a set; the database returns them in any order
QueryRows(edges, entity) ==
    {<<c, Summary(c)>> : c \in {x \in Cluster : <<entity, x>> \in edges}}

\* ------------------------------------------------------ answer clean-up
RawResponses(text) ==
    { <<text>>, <<"assistant:", " ", text>>, <<"assistant:", text, " ">> }

\* re.sub(r"^assistant:\s*", "", s)
StripRolePrefix(s) ==
    IF s # <<>> /\ s[1] = "assistant:"
    THEN SubSeq(s, 2 + SpaceRun(s, 2), Len(s))
    ELSE s

RECURSIVE StripLeft(_)
StripLeft(s) == IF s # <<>> /\ IsSpace(s[1]) THEN StripLeft(Tail(s)) ELSE s

RECURSIVE StripRight(_)
StripRight(s) ==
    IF s # <<>> /\ IsSpace(s[Len(s)]) THEN StripRight(SubSeq(s, 1, Len(s) - 1)) ELSE s

\* line 216: re.sub(...).strip()
Clean(raw) == StripRight(StripLeft(StripRolePrefix(raw)))

\* ------------------------------------------------------- custom_query
\* community_ids[i : i + batch_size] taken one too long
BatchIdsInclusive(ids, from, size) ==
    SubSeq(ids, from + 1, IF from + size + 1 < Len(ids) THEN from + size + 1 ELSE Len(ids))

\* line 83: community_ids[i : i + batch_size] (0-based, end exclusive, clipped)
BatchIds(ids, from, size) ==
    SubSeq(ids, from + 1, IF from + size < Len(ids) THEN from + size ELSE Len(ids))

\* line 82: range(0, len(community_ids), batch_size) has a next value
LoopContinues(at, n) == at < n

\* lines 75, 91-121: get_entities.  list(set) has no defined order.
get_entities ==
    /\ phase = "entities"
    /\ \E order \in Perms(EntitySet(nodes_retrieved)) :
          entities' = order
    /\ phase' = "summaries"
    /\ UNCHANGED <<OPENAI_API_KEY, nodes_retrieved, belongs_to, batch_size, ent_k,
                   community_summaries, i, batch_prompts, batch_responses,
                   community_answers, response_data, err, batches, llm_calls,
                   serviceVars>>

\* line 105: the delegated retrieval raises; nothing catches it
retrieve_nodes_raises ==
    /\ phase = "entities"
    /\ phase' = "raised"
    /\ err' = "RetrievalError"
    /\ UNCHANGED <<OPENAI_API_KEY, nodes_retrieved, belongs_to, batch_size, entities,
                   ent_k, community_summaries, i, batch_prompts, batch_responses,
                   community_answers, response_data, batches, llm_calls,
                   serviceVars>>

\* lines 154-163: one pass of the loop over entities: one session.run and
\* the storing of its records
session_run ==
    /\ phase = "summaries"
    /\ ent_k < Len(entities)
    /\ \E records \in Perms(QueryRows(belongs_to, entities[ent_k + 1])) :
          community_summaries' = StoreRecords(community_summaries, records)
    /\ ent_k' = ent_k + 1
    /\ UNCHANGED <<OPENAI_API_KEY, nodes_retrieved, belongs_to, batch_size, phase,
                   entities, i, batch_prompts, batch_responses,
                   community_answers, response_data, err, batches, llm_calls,
                   serviceVars>>

\* lines 153-161: the session or a query raises; nothing catches it
session_run_raises ==
    /\ phase = "summaries"
    /\ ent_k < Len(entities)
    /\ phase' = "raised"
    /\ err' = "GraphError"
    /\ UNCHANGED <<OPENAI_API_KEY, nodes_retrieved, belongs_to, batch_size, entities,
                   ent_k, community_summaries, i, batch_prompts, batch_responses,
                   community_answers, response_data, batches, llm_calls,
                   serviceVars>>

\* lines 165, 76-81: the fetcher returns; community_answers = []
retrieve_community_summaries_cypher ==
    /\ phase = "summaries"
    /\ ent_k = Len(entities)
    /\ phase' = "loop"
    /\ i' = 0
    /\ community_answers' = <<>>
    /\ UNCHANGED <<OPENAI_API_KEY, nodes_retrieved, belongs_to, batch_size, entities,
                   ent_k, community_summaries, batch_prompts, batch_responses,
                   response_data, err, batches, llm_calls, serviceVars>>

\* lines 82-85, 184-201, 207: the next batch: its ids, one prompt per id
generate_batch_answers_from_summaries ==
    /\ phase = "loop"
    /\ LoopContinues(i, Len(community_summaries))
    /\ LET batch_ids == BatchIds(Keys(community_summaries), i, batch_size)
       IN  /\ batch_prompts' = batch_ids
           /\ batches' = Append(batches, batch_ids)
    /\ batch_responses' = <<>>
    /\ phase' = "batch"
    /\ UNCHANGED <<OPENAI_API_KEY, nodes_retrieved, belongs_to, batch_size, entities,
                   ent_k, community_summaries, i, community_answers,
                   response_data, err, llm_calls, serviceVars>>

\* lines 210-213: which client answers
Client == IF OPENAI_API_KEY THEN "OpenAI" ELSE "_llm"

\* lines 211/213: the next chat call of the comprehension returns
chat ==
    /\ phase = "batch"
    /\ Len(batch_responses) < Len(batch_prompts)
    /\ LET c == batch_prompts[Len(batch_responses) + 1]
       IN  /\ \E raw \in RawResponses(AnswerText(Lookup(community_summaries, c))) :
                 batch_responses' = Append(batch_responses, raw)
           /\ llm_calls' = Append(llm_calls, [community |-> c, client |-> Client])
    /\ UNCHANGED <<OPENAI_API_KEY, nodes_retrieved, belongs_to, batch_size, phase,
                   entities, ent_k, community_summaries, i, batch_prompts,
                   community_answers, response_data, err, batches, serviceVars>>

\* a chat call that raises is swallowed and answered with an empty text
chat_raises_swallowed ==
    /\ phase = "batch"
    /\ Len(batch_responses) < Len(batch_prompts)
    /\ LET c == batch_prompts[Len(batch_responses) + 1]
       IN  llm_calls' = Append(llm_calls, [community |-> c, client |-> Client])
    /\ batch_responses' = Append(batch_responses, <<>>)
    /\ err' = "LLMError"
    /\ UNCHANGED <<OPENAI_API_KEY, nodes_retrieved, belongs_to, batch_size, phase,
                   entities, ent_k, community_summaries, i, batch_prompts,
                   community_answers, response_data, batches, serviceVars>>

\* lines 211/213: the next chat call raises; the comprehension, 
\* generate_batch_responses, generate_batch_answers_from_summaries and
\* custom_query have no handler, so the exception leaves custom_query
chat_raises ==
    /\ phase = "batch"
    /\ Len(batch_responses) < Len(batch_prompts)
    /\ LET c == batch_prompts[Len(batch_responses) + 1]
       IN  llm_calls' = Append(llm_calls, [community |-> c, client |-> Client])
    /\ phase' = "raised"
    /\ err' = "LLMError"
    /\ UNCHANGED <<OPENAI_API_KEY, nodes_retrieved, belongs_to, batch_size, entities,
                   ent_k, community_summaries, i, batch_prompts, batch_responses,
                   community_answers, response_data, batches, serviceVars>>

\* lines 215-219, 86: the batch's answers, in the order of its prompts,
\* are appended; the loop variable advances
generate_batch_responses ==
    /\ phase = "batch"
    /\ Len(batch_responses) = Len(batch_prompts)
    /\ community_answers' = community_answers \o
           [k \in 1..Len(batch_prompts) |-> Clean(batch_responses[k])]
    /\ i' = i + batch_size
    /\ phase' = "loop"
    /\ UNCHANGED <<OPENAI_API_KEY, nodes_retrieved, belongs_to, batch_size, entities,
                   ent_k, community_summaries, batch_prompts, batch_responses,
                   response_data, err, batches, llm_calls, serviceVars>>

\* an empty result is treated as an error
custom_query_rejects_empty ==
    /\ phase = "loop"
    /\ ~LoopContinues(i, Len(community_summaries))
    /\ IF community_answers = <<>>
       THEN /\ phase' = "raised"
            /\ err' = "ValueError"
            /\ UNCHANGED response_data
       ELSE /\ phase' = "done"
            /\ response_data' = [k \in 1..Len(community_answers) |->
                                    [text |-> community_answers[k], metadata |-> {}]]
            /\ UNCHANGED err
    /\ UNCHANGED <<OPENAI_API_KEY, nodes_retrieved, belongs_to, batch_size, entities,
                   ent_k, community_summaries, i, batch_prompts, batch_responses,
                   community_answers, batches, llm_calls, serviceVars>>

\* lines 87-89: the loop is over; one record per answer
custom_query ==
    /\ phase = "loop"
    /\ ~LoopContinues(i, Len(community_summaries))
    /\ response_data' = [k \in 1..Len(community_answers) |->
                            [text |-> community_answers[k], metadata |-> {}]]
    /\ phase' = "done"
    /\ UNCHANGED <<OPENAI_API_KEY, nodes_retrieved, belongs_to, batch_size, entities,
                   ent_k, community_summaries, i, batch_prompts, batch_responses,
                   community_answers, err, batches, llm_calls, serviceVars>>


\* ------------------------------------------------ the retrieve endpoint
\* retrieve (lines 296-323) is a coroutine, one per request.  It awaits
\* initialize_graph_store_and_index (line 307), whose steps are delegated
\* calls (LLM and embedding clients, the graph database, the index).  What
\* runs the coroutines (register_microservice) is not part of this file.
\* Two schedulings are modelled:
\*   Next        another request's handler may run between any two of the
\*               steps below; this is the concurrency model the
\*               specification document states (the handler is a suspension
\*               point, the flag is read then written without mutual
\*               exclusion);
\*   NextSerial  a handler runs from its first step to its return or its
\*               exception before another one starts, which is what one
\*               event loop does when no delegated call yields to it.
\* Every behaviour of NextSerial is a behaviour of Next.
\* A handle is named by the request whose call constructed it (0: None).
Request == 1..NumRequests

InInit(p) == p \in {"init_llm", "init_settings", "init_store", "init_index", "init_engine"}

\* lines 297-307: the query is extracted and `initialized` is read
retrieve ==
    \E r \in Request :
        /\ pc[r] = "idle"
        /\ pc' = [pc EXCEPT ![r] = IF initialized THEN "query" ELSE "init_llm"]
        /\ UNCHANGED <<OPENAI_API_KEY, queryVars, initialized, graph_store, index,
                       query_engine, llm, embed_model, outcome, latency, built>>

\* lines 231-237: the key is set and both OpenAI clients are built
verify_api_key ==
    \E r \in Request :
        /\ pc[r] = "init_llm"
        /\ OPENAI_API_KEY
        /\ llm' = [llm EXCEPT ![r] = "OpenAI"]
        /\ embed_model' = [embed_model EXCEPT ![r] = "OpenAIEmbedding"]
        /\ pc' = [pc EXCEPT ![r] = "init_settings"]
        /\ UNCHANGED <<OPENAI_API_KEY, queryVars, initialized, graph_store, index,
                       query_engine, outcome, latency, built>>

\* lines 234-241: building a client raises (AuthenticationError or any
\* other Exception); the handler logs it and execution goes on after the
\* if/else.  embed_model was not assigned, nor llm when OpenAI() itself
\* raised; the else branch (lines 242-260) is not run
verify_api_key_raises ==
    \E r \in Request :
        /\ pc[r] = "init_llm"
        /\ OPENAI_API_KEY
        /\ \E bound \in {"unbound", "OpenAI"} : llm' = [llm EXCEPT ![r] = bound]
        /\ pc' = [pc EXCEPT ![r] = "init_settings"]
        /\ UNCHANGED <<OPENAI_API_KEY, queryVars, initialized, graph_store, index,
                       query_engine, embed_model, outcome, latency, built>>

\* lines 242-262: no key: the self-hosted LLM and embedding clients
self_hosted_clients ==
    \E r \in Request :
        /\ pc[r] = "init_llm"
        /\ ~OPENAI_API_KEY
        /\ llm' = [llm EXCEPT ![r] = "OpenAILike"]
        /\ embed_model' = [embed_model EXCEPT ![r] = "TextEmbeddingsInference"]
        /\ pc' = [pc EXCEPT ![r] = "init_settings"]
        /\ UNCHANGED <<OPENAI_API_KEY, queryVars, initialized, graph_store, index,
                       query_engine, outcome, latency, built>>

\* line 254: the embedding endpoint does not answer; nothing catches it
self_hosted_clients_raises ==
    \E r \in Request :
        /\ pc[r] = "init_llm"
        /\ ~OPENAI_API_KEY
        /\ llm' = [llm EXCEPT ![r] = "OpenAILike"]
        /\ pc' = [pc EXCEPT ![r] = "failed"]
        /\ outcome' = [outcome EXCEPT ![r] = "EndpointError"]
        /\ UNCHANGED <<OPENAI_API_KEY, queryVars, initialized, graph_store, index,
                       query_engine, embed_model, latency, built>>

\* lines 261-262: Settings.embed_model = embed_model; Settings.llm = llm.
\* Reading a local that was never assigned raises UnboundLocalError, which
\* nothing catches
assign_settings ==
    \E r \in Request :
        /\ pc[r] = "init_settings"
        /\ IF embed_model[r] = "unbound" \/ llm[r] = "unbound"
           THEN /\ pc' = [pc EXCEPT ![r] = "failed"]
                /\ outcome' = [outcome EXCEPT ![r] = "UnboundLocalError"]
           ELSE /\ pc' = [pc EXCEPT ![r] = "init_store"]
                /\ UNCHANGED outcome
        /\ UNCHANGED <<OPENAI_API_KEY, queryVars, initialized, graph_store, index,
                       query_engine, llm, embed_model, latency, built>>

\* line 267 with the flag written as soon as the store exists
GraphStoreCreatedFlagFirst(r) ==
    /\ graph_store' = r
    /\ initialized' = TRUE

\* line 267: graph_store = GraphRAGStore(...)
GraphStoreCreated(r) ==
    /\ graph_store' = r
    /\ UNCHANGED initialized

create_graph_store ==
    \E r \in Request :
        /\ pc[r] = "init_store"
        /\ GraphStoreCreated(r)
        /\ built' = Append(built, [kind |-> "graph_store", by |-> r])
        /\ pc' = [pc EXCEPT ![r] = "init_index"]
        /\ UNCHANGED <<OPENAI_API_KEY, queryVars, index, query_engine, llm,
                       embed_model, outcome, latency>>

\* line 267: the graph database is unreachable; nothing catches it
create_graph_store_raises ==
    \E r \in Request :
        /\ pc[r] = "init_store"
        /\ pc' = [pc EXCEPT ![r] = "failed"]
        /\ outcome' = [outcome EXCEPT ![r] = "GraphStoreError"]
        /\ UNCHANGED <<OPENAI_API_KEY, queryVars, initialized, graph_store, index,
                       query_engine, llm, embed_model, latency, built>>

\* lines 272-276: index = PropertyGraphIndex.from_existing(graph_store, ...)
\* on the global graph_store as it is now
create_index ==
    \E r \in Request :
        /\ pc[r] = "init_index"
        /\ index' = [id |-> r, store |-> graph_store]
        /\ built' = Append(built, [kind |-> "index", by |-> r])
        /\ pc' = [pc EXCEPT ![r] = "init_engine"]
        /\ UNCHANGED <<OPENAI_API_KEY, queryVars, initialized, graph_store,
                       query_engine, llm, embed_model, outcome, latency>>

\* lines 272-276: from_existing raises; graph_store stays assigned
create_index_raises ==
    \E r \in Request :
        /\ pc[r] = "init_index"
        /\ pc' = [pc EXCEPT ![r] = "failed"]
        /\ outcome' = [outcome EXCEPT ![r] = "IndexError"]
        /\ UNCHANGED <<OPENAI_API_KEY, queryVars, initialized, graph_store, index,
                       query_engine, llm, embed_model, latency, built>>

\* lines 279-285 with a guard: an engine that exists is kept
EngineAssignedFirstWins(r) ==
    /\ query_engine' = IF query_engine.id = 0
                       THEN [id |-> r, index |-> index.id] ELSE query_engine
    /\ initialized' = TRUE

\* lines 279-285: query_engine = GraphRAGQueryEngine(index=index, ...) on the
\* global index as it is now; then initialized = True
EngineAssigned(r) ==
    /\ query_engine' = [id |-> r, index |-> index.id]
    /\ initialized' = TRUE

initialize_graph_store_and_index ==
    \E r \in Request :
        /\ pc[r] = "init_engine"
        /\ EngineAssigned(r)
        /\ built' = Append(built, [kind |-> "query_engine", by |-> r])
        /\ pc' = [pc EXCEPT ![r] = "query"]
        /\ UNCHANGED <<OPENAI_API_KEY, queryVars, graph_store, index, llm,
                       embed_model, outcome, latency>>

\* a latency sample recorded on the failure path too (try/finally)
FailureRecorded(r) == latency' = Append(latency, [request |-> r, tokens |-> "None"])

\* lines 310-319 when query raises: line 319 is never reached
FailureNotRecorded(r) == UNCHANGED latency

\* lines 310-323: query_engine.query(query) returns the answers, the result
\* is built and one latency sample is appended with token count None
answer_query ==
    \E r \in Request :
        /\ pc[r] = "query"
        /\ query_engine.id # 0
        /\ latency' = Append(latency, [request |-> r, tokens |-> "None"])
        /\ pc' = [pc EXCEPT ![r] = "done"]
        /\ outcome' = [outcome EXCEPT ![r] = "ok"]
        /\ UNCHANGED <<OPENAI_API_KEY, queryVars, initialized, graph_store, index,
                       query_engine, llm, embed_model, built>>

\* line 310: custom_query raises (retrieval, graph database or LLM), or
\* query_engine is None (AttributeError); retrieve has no handler
answer_query_raises ==
    \E r \in Request :
        /\ pc[r] = "query"
        /\ outcome' = [outcome EXCEPT ![r] =
                          IF query_engine.id = 0 THEN "AttributeError" ELSE "QueryError"]
        /\ FailureNotRecorded(r)
        /\ pc' = [pc EXCEPT ![r] = "failed"]
        /\ UNCHANGED <<OPENAI_API_KEY, queryVars, initialized, graph_store, index,
                       query_engine, llm, embed_model, built>>

\* ------------------------------------------------------ inputs and specs

Texts(n) == UNION {[1..k -> Token] : k \in 0..n}

ChainText == <<"Paris", "->", "capitalOf", "->", "France", "->", "capitalOf", "->", "Paris">>
TwoLineText == <<"Paris", "->", "capitalOf", "->", "France", " ",
                 "France", "->", "capitalOf", "->", "Paris">>
TwoMatchText == <<"Paris", "->", "capitalOf", "->", "France", ".",
                  "France", " ", "->", "capitalOf", "->", "capitalOf">>
NoTripletText == <<"Paris", " ", "->", " ", "France", ".">>

SampleNodes ==
    { <<>>, <<ParisText>>, <<ParisText, ParisText>>, <<NoTripletText>>,
      <<ChainText>>, <<TwoLineText>>, <<TwoMatchText>>,
      <<NoTripletText, TwoMatchText>> }

AllEdges == EntityName \X Cluster

SampleGraphs ==
    { {},
      {<<(<<"capitalOf">>), "c1">>},
      {<<(<<"Paris">>), "c1">>},
      {<<(<<"Paris">>), "c1">>, <<(<<"Paris">>), "c2">>,
       <<(<<"France">>), "c2">>, <<(<<"France">>), "c3">>},
      AllEdges }

\* the service process before its first request
ServiceIdle ==
    /\ initialized = FALSE
    /\ graph_store = 0
    /\ index = [id |-> 0, store |-> 0]
    /\ query_engine = [id |-> 0, index |-> 0]
    /\ pc = [r \in Request |-> "idle"]
    /\ llm = [r \in Request |-> "unbound"]
    /\ embed_model = [r \in Request |-> "unbound"]
    /\ outcome = [r \in Request |-> "none"]
    /\ latency = <<>>
    /\ built = <<>>

\* custom_query at its first line
QueryStart ==
    /\ phase = "entities"
    /\ entities = <<>>
    /\ ent_k = 0
    /\ community_summaries = <<>>
    /\ i = 0
    /\ batch_prompts = <<>>
    /\ batch_responses = <<>>
    /\ community_answers = <<>>
    /\ response_data = <<>>
    /\ err = "none"
    /\ batches = <<>>
    /\ llm_calls = <<>>

\* get_entities on every short node text and on the sample retrievals
InitEntities ==
    /\ nodes_retrieved \in {<<t>> : t \in Texts(MaxTextLen)} \cup SampleNodes
    /\ belongs_to = {}
    /\ batch_size = 1
    /\ OPENAI_API_KEY = FALSE
    /\ QueryStart
    /\ ServiceIdle

NextEntities == get_entities \/ retrieve_nodes_raises

SpecEntities == InitEntities /\ [][NextEntities]_vars

\* retrieve_community_summaries_cypher on every short entity list and
\* every small graph
InitSummaries ==
    /\ nodes_retrieved = <<>>
    /\ belongs_to \in {g \in SUBSET AllEdges : Cardinality(g) <= MaxEdges} \cup SampleGraphs
    /\ batch_size = 1
    /\ OPENAI_API_KEY = FALSE
    /\ entities \in UNION {[1..k -> EntityName] : k \in 0..MaxEntities}
    /\ phase = "summaries"
    /\ ent_k = 0
    /\ community_summaries = <<>>
    /\ i = 0
    /\ batch_prompts = <<>>
    /\ batch_responses = <<>>
    /\ community_answers = <<>>
    /\ response_data = <<>>
    /\ err = "none"
    /\ batches = <<>>
    /\ llm_calls = <<>>
    /\ ServiceIdle

NextSummaries ==
    session_run \/ session_run_raises \/ retrieve_community_summaries_cypher

SpecSummaries == InitSummaries /\ [][NextSummaries]_vars

\* the whole of custom_query
InitQuery ==
    /\ nodes_retrieved \in SampleNodes
    /\ belongs_to \in SampleGraphs
    /\ batch_size \in 1..MaxBatch
    /\ OPENAI_API_KEY \in BOOLEAN
    /\ QueryStart
    /\ ServiceIdle

NextQuery ==
    \/ get_entities
    \/ retrieve_nodes_raises
    \/ session_run
    \/ session_run_raises
    \/ retrieve_community_summaries_cypher
    \/ generate_batch_answers_from_summaries
    \/ chat
    \/ chat_raises
    \/ generate_batch_responses
    \/ custom_query

SpecQuery == InitQuery /\ [][NextQuery]_vars


\* the service from its start, with or without a provider key
Init ==
    /\ OPENAI_API_KEY \in BOOLEAN
    /\ nodes_retrieved = <<>>
    /\ belongs_to = {}
    /\ batch_size = 1
    /\ QueryStart
    /\ ServiceIdle

Next ==
    \/ retrieve
    \/ verify_api_key
    \/ verify_api_key_raises
    \/ self_hosted_clients
    \/ self_hosted_clients_raises
    \/ assign_settings
    \/ create_graph_store
    \/ create_graph_store_raises
    \/ create_index
    \/ create_index_raises
    \/ initialize_graph_store_and_index
    \/ answer_query
    \/ answer_query_raises

Spec == Init /\ [][Next]_vars

\* request r may take a step: no other handler is under way
Quiet(r) == \A q \in Request \ {r} : pc[q] \in {"idle", "done", "failed"}

SerialStep == \A r \in Request : pc'[r] # pc[r] => Quiet(r)

NextSerial ==
    \/ retrieve /\ SerialStep
    \/ verify_api_key /\ SerialStep
    \/ verify_api_key_raises /\ SerialStep
    \/ self_hosted_clients /\ SerialStep
    \/ self_hosted_clients_raises /\ SerialStep
    \/ assign_settings /\ SerialStep
    \/ create_graph_store /\ SerialStep
    \/ create_graph_store_raises /\ SerialStep
    \/ create_index /\ SerialStep
    \/ create_index_raises /\ SerialStep
    \/ initialize_graph_store_and_index /\ SerialStep
    \/ answer_query /\ SerialStep
    \/ answer_query_raises /\ SerialStep

SpecSerial == Init /\ [][NextSerial]_vars


\* ============================================================== properties

CeilDiv(n, b) == (n + b - 1) \div b

\* C1: when custom_query returns, it has issued exactly ceil(N/B) batches,
\* each of at most B ids, the batches taken together are the community ids
\* in the mapping's order, and there are exactly N answers, the j-th being
\* the cleaned answer to the j-th community id's summary.
C1_BatchesAndOrder ==
    phase = "done" =>
        LET ids == Keys(community_summaries)
            N == Len(ids)
        IN  /\ Len(batches) = CeilDiv(N, batch_size)
            /\ \A k \in 1..Len(batches) :
                  Len(batches[k]) >= 1 /\ Len(batches[k]) <= batch_size
            /\ Concat(batches) = ids
            /\ Len(response_data) = N
            /\ \A j \in 1..N :
                  response_data[j] =
                      [text |-> <<AnswerText(Lookup(community_summaries, ids[j]))>>,
                       metadata |-> {}]

\* C1 witness: four communities answered with batch_size 3: two batches,
\* the last one smaller.
C1_Witness ==
    /\ phase = "done"
    /\ Len(community_summaries) = 4
    /\ batch_size = 3
    /\ Len(batches) = 2
    /\ Len(batches[2]) = 1
    /\ Len(response_data) = 4

\* C3: once a chat call has raised, custom_query has been left by the
\* exception: nothing is returned (not even the answers already collected),
\* no community was asked twice, and the failing call is the last call
\* issued (every earlier call has its response, and it is the only one
\* without).
C3_LlmErrorAbortsQuery ==
    err = "LLMError" =>
        /\ phase = "raised"
        /\ response_data = <<>>
        /\ NoDup([k \in 1..Len(llm_calls) |-> llm_calls[k].community])
        /\ Len(llm_calls) = Len(community_answers) + Len(batch_responses) + 1

\* C3 witness: the call fails after a whole batch was answered and while
\* communities are still unasked.
C3_Witness ==
    /\ err = "LLMError"
    /\ phase = "raised"
    /\ community_answers # <<>>
    /\ Len(llm_calls) < Len(community_summaries)
    /\ response_data = <<>>

\* The fetcher has returned its mapping to custom_query.
SummariesFetched ==
    \/ phase \in {"loop", "batch", "done"}
    \/ phase = "raised" /\ err \notin {"RetrievalError", "GraphError"}

\* C4: with an empty community-summary mapping custom_query issues no batch
\* and no LLM call, raises nothing, and what it returns is the empty
\* sequence.
C4_EmptyMappingNoCalls ==
    (SummariesFetched /\ community_summaries = <<>>) =>
        /\ llm_calls = <<>>
        /\ batches = <<>>
        /\ phase \in {"loop", "done"}
        /\ err = "none"
        /\ response_data = <<>>

\* C4 witness: entities were found, none belongs to a community, and
\* custom_query has returned.
C4_Witness ==
    /\ phase = "done"
    /\ entities # <<>>
    /\ community_summaries = <<>>
    /\ llm_calls = <<>>
    /\ response_data = <<>>

\* --- the triplet convention, stated without the matcher
\* text[a..b] is a segment: words separated by whitespace
IsSegment(text, a, b) ==
    /\ a <= b
    /\ IsWord(text[a])
    /\ IsWord(text[b])
    /\ \A k \in a..b : IsWord(text[k]) \/ IsSpace(text[k])

\* between b and c there is one arrow and otherwise only whitespace
IsSeparator(text, b, c) ==
    \E m \in (b + 1)..(c - 1) :
        /\ text[m] = Arrow
        /\ \A k \in ((b + 1)..(c - 1)) \ {m} : IsSpace(text[k])

\* every "subject -> relation -> object" occurrence from position pos on
Triplets(text, pos) ==
    LET n == Len(text)
    IN  UNION { UNION { UNION { UNION { UNION {
          { <<a, b, c, d, e, f>> : f \in {x \in e..n : IsSegment(text, e, x)} }
            : e \in {x \in (d + 2)..n : IsSeparator(text, d, x)} }
            : d \in {x \in c..n : IsSegment(text, c, x)} }
            : c \in {x \in (b + 2)..n : IsSeparator(text, b, x)} }
            : b \in {x \in a..n : IsSegment(text, a, x)} }
            : a \in pos..n }

\* the non-overlapping occurrences a left-to-right scan finds: the leftmost
\* one, with the longest object, then those after its end
RECURSIVE ScanTriplets(_, _)
ScanTriplets(text, pos) ==
    LET T == Triplets(text, pos)
    IN  IF T = {} THEN {}
        ELSE LET t == CHOOSE t \in T :
                        \A u \in T : t[1] < u[1] \/ (t[1] = u[1] /\ t[6] >= u[6])
             IN  {t} \cup ScanTriplets(text, t[6] + 1)

SubjectsAndObjects(nodes) ==
    UNION { UNION { { SubSeq(nodes[n], t[1], t[2]), SubSeq(nodes[n], t[5], t[6]) }
                    : t \in ScanTriplets(nodes[n], 1) }
            : n \in 1..Len(nodes) }

Relations(nodes) ==
    UNION { { SubSeq(nodes[n], t[3], t[4]) : t \in ScanTriplets(nodes[n], 1) }
            : n \in 1..Len(nodes) }

\* C5: what get_entities returns has no duplicates and holds exactly the
\* subjects and objects of the triplets found in the node texts; a relation
\* is in it only as some triplet's subject or object; for the single text
\* "Paris -> capitalOf -> France" it holds Paris and France and not
\* capitalOf.
C5_SubjectsAndObjectsOnly ==
    phase = "summaries" =>
        /\ NoDup(entities)
        /\ Range(entities) = SubjectsAndObjects(nodes_retrieved)
        /\ \A rel \in Relations(nodes_retrieved) :
              rel \in Range(entities) => rel \in SubjectsAndObjects(nodes_retrieved)
        /\ nodes_retrieved = <<ParisText>> =>
              /\ <<"Paris">> \in Range(entities)
              /\ <<"France">> \in Range(entities)
              /\ <<"capitalOf">> \notin Range(entities)

\* C5 witness: get_entities has returned for the spec's example.
C5_Witness ==
    /\ phase = "summaries"
    /\ nodes_retrieved = <<ParisText>>
    /\ Range(entities) = {<<"Paris">>, <<"France">>}

\* the community ids one BELONGS_TO hop away from the entities
Reachable(edges, ents) ==
    {c \in Cluster : \E k \in 1..Len(ents) : <<ents[k], c>> \in edges}

\* C6: at every point of the fetch the mapping's keys are community ids
\* reachable from the entities by one BELONGS_TO hop, each held once with
\* its own summary; when the fetch returns, every reachable id is a key, so
\* the mapping is the same for any order of the entities and an entity
\* without membership adds nothing.
C6_KeysReachableOnce ==
    LET keys == Keys(community_summaries)
    IN  /\ Range(keys) \subseteq Reachable(belongs_to, entities)
        /\ NoDup(keys)
        /\ \A k \in 1..Len(community_summaries) :
              community_summaries[k][2] = Summary(community_summaries[k][1])
        /\ phase = "loop" => Range(keys) = Reachable(belongs_to, entities)

\* C6 witness: the fetch has returned for entities of which two share a
\* community and one belongs to none.
C6_Witness ==
    /\ phase = "loop"
    /\ \E j, k \in 1..Len(entities) :
          /\ entities[j] # entities[k]
          /\ \E c \in Cluster :
                /\ <<entities[j], c>> \in belongs_to
                /\ <<entities[k], c>> \in belongs_to
                /\ HasKey(community_summaries, c)
    /\ \E m \in 1..Len(entities) :
          \A c \in Cluster : <<entities[m], c>> \notin belongs_to


\* --- the service
Built(kind) == SelectSeq(built, LAMBDA b : b.kind = kind)

Samples(r) == SelectSeq(latency, LAMBDA x : x.request = r)

\* request r went through initialize_graph_store_and_index to its end
CompletedInit(r) ==
    /\ embed_model[r] # "unbound"
    /\ pc[r] = "query" \/ outcome[r] \in {"ok", "QueryError", "AttributeError"}

\* C2: the graph store, the index and the query engine are each constructed
\* at most once in the life of the process (every construction assigns its
\* handle, so a handle that is set is never replaced).
\* (Violated already under NextSerial, by a request that follows a failed
\* initialization.)
C2_ConstructedOnce ==
    /\ Len(Built("graph_store")) <= 1
    /\ Len(Built("index")) <= 1
    /\ Len(Built("query_engine")) <= 1

\* C7 as claimed: every invocation that has ended, whatever its outcome,
\* has exactly one latency sample.
C7_OneSamplePerInvocation ==
    \A r \in Request : pc[r] \in {"done", "failed"} => Len(Samples(r)) = 1

\* C7 amended: an invocation that returned its result has exactly one
\* latency sample, recorded without a token count; an invocation that has
\* not returned, or that raised, has none.
C7_OneSamplePerReturn ==
    /\ \A r \in Request :
          Len(Samples(r)) = IF pc[r] = "done" THEN 1 ELSE 0
    /\ \A k \in 1..Len(latency) : latency[k].tokens = "None"

\* C7 witness: one invocation returned and one raised; one sample.
C7_Witness ==
    /\ \E r \in Request : pc[r] = "done" /\ Len(Samples(r)) = 1
    /\ \E r \in Request : pc[r] = "failed" /\ Len(Samples(r)) = 0
    /\ Len(latency) = 1

C9_VerifyErrorNotFatal ==
    \A r \in Request :
        (OPENAI_API_KEY /\ embed_model[r] = "unbound" /\ pc[r] = "failed")
            => outcome[r] # "UnboundLocalError"

\* C10: initialized is True exactly when some initialization has run to its
\* end, and then the three handles are set; no request stands at, or has
\* failed in, query on an unset engine; and a step in which an
\* initialization raises leaves the flag as it was.
C10_FlagWrittenLast ==
    /\ [](/\ initialized <=> Built("query_engine") # <<>>
          /\ initialized => graph_store # 0 /\ index.id # 0 /\ query_engine.id # 0
          /\ \A r \in Request :
                /\ pc[r] = "query" => query_engine.id # 0
                /\ outcome[r] # "AttributeError")
    /\ [][\A r \in Request :
             (InInit(pc[r]) /\ pc'[r] = "failed") => initialized' = initialized]_vars

\* C10 witness: an initialization raised after the graph store was
\* assigned, the flag is still False, and another request is running the
\* construction again.
C10_Witness ==
    /\ ~initialized
    /\ graph_store # 0
    /\ \E r \in Request : pc[r] = "failed" /\ outcome[r] = "IndexError"
    /\ \E r \in Request : InInit(pc[r])

=============================================================================
